---- MODULE Spec2Model ----
(***************************************************************************)
(* geonetworkx/utils/voronoi_utils.py: the Voronoi cells of a list of      *)
(* lines (compute_voronoi_cells_from_lines), with the line splitter        *)
(* (split_as_simple_segments), the pyvoronoi add-on (PyVoronoiHelper) and   *)
(* the per-line aggregation.                                               *)
(*                                                                         *)
(* Geometry.  The input lines are walks on a small planar straight-line    *)
(* graph, the bottom, right and top sides of a 4 x 3 rectangle.  Two       *)
(* different edges of that graph meet at most in a common end vertex, so   *)
(* every intersection of lines is a vertex or a whole edge, and the        *)
(* geometry library's answers (is_simple, intersection, buffer/contains)   *)
(* are computable on vertex and edge sets.                                 *)
(***************************************************************************)
EXTENDS Integers, Sequences, FiniteSets, TLC

\* Bounds of the model.
MaxLines == 2
MaxSteps == 2

\* ------------------------------------------------------------------------
\* The universe of input lines

Vertices == {0, 1, 2, 3}

\* Vertex coordinates: the corners of a 4 x 3 rectangle, counterclockwise.
Coord(v) == CASE v = 0 -> <<0, 0>> [] v = 1 -> <<4, 0>> [] v = 2 -> <<4, 3>> [] OTHER -> <<0, 3>>

GraphEdges == {{0, 1}, {1, 2}, {2, 3}}

Walks(n) == {w \in [1..(n + 1) -> Vertices] : \A k \in 1..n : {w[k], w[k + 1]} \in GraphEdges}

AllLines == UNION {Walks(n) : n \in 1..MaxSteps}

InputLists == UNION {[1..n -> AllLines] : n \in 1..MaxLines}

\* The two-point segments a LineString is made of, and its points.
EdgesOf(line) == {{line[k], line[k + 1]} : k \in 1..(Len(line) - 1)}

PointsOf(line) == {line[k] : k \in 1..Len(line)}

AllEdgesOf(ls) == UNION {EdgesOf(ls[n]) : n \in 1..Len(ls)}

\* ------------------------------------------------------------------------
\* The geometry library on lines (shapely / GEOS), by its documented meaning

\* LineString.is_simple: the line does not pass twice through a point, a
\* closed ring's common end point excepted.
IsSimpleLineString(line) ==
    /\ \A a, b \in 1..Len(line) :
          (a < b /\ line[a] = line[b]) => (a = 1 /\ b = Len(line))
    /\ \A a, b \in 1..(Len(line) - 1) :
          (a < b) => {line[a], line[a + 1]} # {line[b], line[b + 1]}

\* The boundary of a LineString (mod-2 rule): its two end points, none if closed.
Boundary(line) == IF line[1] = line[Len(line)] THEN {} ELSE {line[1], line[Len(line)]}

\* MultiLineString.is_simple: every element is simple and two elements meet
\* only in points that are on the boundary of both.
IsSimpleMulti(ls) ==
    /\ \A n \in 1..Len(ls) : IsSimpleLineString(ls[n])
    /\ \A m, n \in 1..Len(ls) :
          (m < n) =>
             /\ EdgesOf(ls[m]) \cap EdgesOf(ls[n]) = {}
             /\ (PointsOf(ls[m]) \cap PointsOf(ls[n]))
                   \subseteq (Boundary(ls[m]) \cap Boundary(ls[n]))

\* A geometry of the splitter's global list: its type and the edges it covers.
MultiLineStringOf(ls) == [geom_type |-> "MultiLineString", edges |-> AllEdgesOf(ls)]

SegmentOf(e) == [geom_type |-> "LineString", edges |-> {e}]

\* line.intersection(line) of a MultiLineString: the linework noded at every
\* vertex, each distinct two-point segment once.  One segment alone comes back
\* as a LineString, several as a MultiLineString.
SelfIntersection(ls) ==
    [geom_type |-> IF Cardinality(AllEdgesOf(ls)) = 1 THEN "LineString" ELSE "MultiLineString",
     edges |-> AllEdgesOf(ls)]

\* The orders in which list(mls) can yield the parts of a MultiLineString: the
\* library fixes the order, the caller does not.
PartOrders(mls) ==
    {s \in [1..Cardinality(mls.edges) -> {SegmentOf(e) : e \in mls.edges}] :
        \A a, b \in 1..Cardinality(mls.edges) : (a # b) => (s[a] # s[b])}

\* line.buffer(tol, 1).contains(sub_line): tol is far below the edge length, so
\* the buffer contains exactly the edges of the line.
BufferContains(line, sub_line) == sub_line.edges \subseteq EdgesOf(line)

\* ------------------------------------------------------------------------
\* Coordinates and the geometry library on polygons

\* A float that is not a number (0.0 / 0.0 in numpy); every other coordinate
\* of the model is an integer.
NaN == -9999

\* edge.start == -1 / edge.end == -1: the vertex at infinity.
NoVertex == <<>>

FAdd(a, b) == IF a = NaN \/ b = NaN THEN NaN ELSE a + b

FSub(a, b) == IF a = NaN \/ b = NaN THEN NaN ELSE a - b

FMul(a, b) == IF a = NaN \/ b = NaN THEN NaN ELSE a * b

\* Float division; 0.0 / 0.0 is nan (numpy warns and goes on).  The model's
\* quotients are whole numbers, so every quotient is exact.
FDiv(a, b) == IF a = NaN \/ b = NaN \/ b = 0 THEN NaN ELSE a \div b

\* Python's == on floats: nan equals nothing, itself included.
FEq(a, b) == a # NaN /\ b # NaN /\ a = b

Abs(a) == IF a < 0 THEN -a ELSE a

\* np.linalg.norm of a 2-vector whose squared length is a perfect square.
Norm(v) ==
    IF v[1] = NaN \/ v[2] = NaN THEN NaN
    ELSE CHOOSE n \in 0..(Abs(v[1]) + Abs(v[2])) : n * n = v[1] * v[1] + v[2] * v[2]

\* The bounds of MultiLineString(lines) as [[minx, miny], [maxx, maxy]].
MinOf(S) == CHOOSE a \in S : \A b \in S : a <= b

MaxOf(S) == CHOOSE a \in S : \A b \in S : a >= b

BoundsOf(ls) ==
    LET pts == {Coord(v) : v \in UNION {PointsOf(ls[n]) : n \in 1..Len(ls)}}
    IN  <<<<MinOf({p[1] : p \in pts}), MinOf({p[2] : p \in pts})>>,
          <<MaxOf({p[1] : p \in pts}), MaxOf({p[2] : p \in pts})>>>>

\* box(minx, miny, maxx, maxy) as a point predicate.
InBox(p, bb) ==
    /\ p[1] # NaN /\ p[2] # NaN
    /\ bb[1][1] <= p[1] /\ p[1] <= bb[2][1]
    /\ bb[1][2] <= p[2] /\ p[2] <= bb[2][2]

\* The sign of the turn a -> b -> c.
Turn(a, b, c) ==
    LET d == (b[1] - a[1]) * (c[2] - a[2]) - (b[2] - a[2]) * (c[1] - a[1])
    IN  IF d > 0 THEN 1 ELSE IF d < 0 THEN -1 ELSE 0

\* The open segments ab and cd cross in one interior point.
Crosses(a, b, c, d) ==
    /\ Turn(a, b, c) * Turn(a, b, d) < 0
    /\ Turn(c, d, a) * Turn(c, d, b) < 0

\* Polygon(coords): the exterior ring, closed if the caller left it open.
RingOf(coords) ==
    IF coords[1] = coords[Len(coords)] THEN coords ELSE Append(coords, coords[1])

HasNaN(coords) == \E k \in 1..Len(coords) : coords[k][1] = NaN \/ coords[k][2] = NaN

\* The pairs of ring segments that cross.
RingCrossings(ring) ==
    {ab \in (1..(Len(ring) - 1)) \X (1..(Len(ring) - 1)) :
        /\ ab[1] < ab[2]
        /\ Crosses(ring[ab[1]], ring[ab[1] + 1], ring[ab[2]], ring[ab[2] + 1])}

\* The places where the ring runs along a segment and straight back: segment
\* a and segment a + 1 are the same segment.
RingRetraces(ring) == {a \in 1..(Len(ring) - 2) : ring[a] = ring[a + 2]}

\* The retraced segments that cut the ring's area in two: the far end of the
\* segment, ring[a + 1], is a vertex t the ring has passed before.
SpikeSplits(ring) ==
    {ta \in (1..Len(ring)) \X RingRetraces(ring) : ta[1] < ta[2] /\ ring[ta[1]] = ring[ta[2] + 1]}

\* A geometry: its type, its parts (each part the set of its ring's vertices)
\* and whether it is valid.  Polygon(coords).is_valid: the ring has at least
\* three distinct points and does not cross itself.
Polygon(coords) ==
    LET ring == RingOf(coords)
    IN  [geom_type |-> "Polygon",
         ring |-> ring,
         parts |-> {{ring[k] : k \in 1..Len(ring)}},
         is_valid |-> /\ ~HasNaN(ring)
                      /\ Cardinality({ring[k] : k \in 1..Len(ring)}) >= 3
                      /\ RingCrossings(ring) = {}
                      /\ RingRetraces(ring) = {}]

EmptyCollection ==
    [geom_type |-> "GeometryCollection", ring |-> <<>>, parts |-> {}, is_valid |-> TRUE]

\* The type GEOS gives a set of polygonal parts.
TypeOfParts(parts) ==
    IF parts = {} THEN "GeometryCollection"
    ELSE IF Cardinality(parts) = 1 THEN "Polygon" ELSE "MultiPolygon"

\* MultiPolygon(polygonize(p_ext.intersection(p_ext))): the faces of the
\* ring's arrangement.  A ring with one crossing, of segments a and b, falls
\* into the lobe between the two segments and the lobe around them; a ring
\* that a retraced segment cuts in two falls into the faces on either side of
\* that segment; any other ring keeps its single face.
BowtieLobes(ring) ==
    IF Cardinality(RingCrossings(ring)) = 1
    THEN LET ab == CHOOSE x \in RingCrossings(ring) : TRUE
         IN  {{ring[k] : k \in (ab[1] + 1)..ab[2]},
              {ring[k] : k \in (1..ab[1]) \cup ((ab[2] + 1)..Len(ring))}}
    ELSE IF SpikeSplits(ring) # {}
         THEN LET ta == CHOOSE x \in SpikeSplits(ring) : TRUE
              IN  {{ring[k] : k \in ta[1]..ta[2]},
                   {ring[k] : k \in (1..ta[1]) \cup ((ta[2] + 2)..Len(ring))}}
         ELSE {{ring[k] : k \in 1..Len(ring)}}

\* geometry.intersection(bounding_box), for parts that lie either inside the
\* box or wholly beside it: the parts inside, typed by their number.
Intersection(geom, bb) ==
    LET kept == {p \in geom.parts : \A q \in p : InBox(q, bb)}
    IN  [geom_type |-> TypeOfParts(kept), ring |-> <<>>, parts |-> kept, is_valid |-> TRUE]

\* cascaded_union(polygons): the union of the parts; of nothing, an empty
\* GeometryCollection.
CascadedUnion(polygons) ==
    LET all == UNION {polygons[k].parts : k \in 1..Len(polygons)}
    IN  [geom_type |-> TypeOfParts(all), ring |-> <<>>, parts |-> all, is_valid |-> TRUE]

\* ------------------------------------------------------------------------
\* PyVoronoiHelper: the cells' coordinates

\* The diagram as pyvoronoi hands it over.  A cell is a record
\*   [cell_identifier, site, contains_point, contains_segment, edges];
\* an edge carries what the helper reads through it:
\*   start, end      the vertices' coordinates, NoVertex for index -1
\*   is_linear
\*   curve           the points DiscretizeCurvedEdge yields
\*   unsolvable      it raises UnsolvableParabolaEquation after yielding them
\*   cell, twin      the sites of the edge's cell and of its twin's cell:
\*                   [contains_point, contains_segment, point, segment]

\* Lines 153-160.
add_polygon_coordinates(coordinates, point) ==
    IF /\ coordinates # <<>>
       /\ FEq(coordinates[Len(coordinates)][1], point[1])
       /\ FEq(coordinates[Len(coordinates)][2], point[2])
    THEN coordinates
    ELSE Append(coordinates, point)

\* Lines 118-137: the ray's origin.
RidgeOrigin(edge) ==
    IF edge.cell.contains_point /\ edge.twin.contains_point
    THEN <<(edge.cell.point[1] + edge.twin.point[1]) \div 2,
           (edge.cell.point[2] + edge.twin.point[2]) \div 2>>
    ELSE IF edge.cell.contains_segment THEN edge.twin.point ELSE edge.cell.point

\* Lines 118-137: the ray's direction, before it is normalized.
RidgeDirection(edge) ==
    IF edge.cell.contains_point /\ edge.twin.contains_point
    THEN <<edge.cell.point[2] - edge.twin.point[2], edge.twin.point[1] - edge.cell.point[1]>>
    ELSE LET segment == IF edge.cell.contains_segment THEN edge.cell.segment ELSE edge.twin.segment
             dx == segment[2][1] - segment[1][1]
             dy == segment[2][2] - segment[1][2]
         IN  IF (segment[1] = RidgeOrigin(edge)) # edge.cell.contains_point
             THEN <<dy, -dx>>
             ELSE <<-dy, dx>>

\* Lines 138, 140 and 146: ridge_direction / np.linalg.norm(ridge_direction)
\* * eta.  The product is taken first, so that the quotient is a whole number
\* for every direction of the model; rounding is not modelled.
Scaled(v, eta) == <<FDiv(FMul(v[1], eta), Norm(v)), FDiv(FMul(v[2], eta), Norm(v))>>

\* Lines 112-150.
clip_infinite_edge(cell_coords, edge, eta) ==
    LET origin == RidgeOrigin(edge)
        ridge_direction_eta == Scaled(RidgeDirection(edge), eta)
        first == IF edge.start = NoVertex
                 THEN <<FSub(origin[1], ridge_direction_eta[1]),
                        FSub(origin[2], ridge_direction_eta[2])>>
                 ELSE edge.start
        second == IF edge.end = NoVertex
                  THEN <<FAdd(origin[1], ridge_direction_eta[1]),
                         FAdd(origin[2], ridge_direction_eta[2])>>
                  ELSE edge.end
    IN  add_polygon_coordinates(add_polygon_coordinates(cell_coords, first), second)

\* Lines 97-98 and 106-107: the edge's two end vertices.
AddEndVertices(cell_coords, edge) ==
    add_polygon_coordinates(add_polygon_coordinates(cell_coords, edge.start), edge.end)

\* A slip in lines 100-107: the points are appended as they are yielded, so
\* those yielded before the exception stay.
OnUnsolvableParabolaLeaky(cell_coords, edge) == AddEndVertices(cell_coords \o edge.curve, edge)

\* Lines 105-107: what the except clause leaves in cell_coords.
OnUnsolvableParabola(cell_coords, edge) == AddEndVertices(cell_coords, edge)

\* Lines 89-107: one pass of the loop over a cell's edges.
ProcessEdge(cell_coords, edge, eta) ==
    IF edge.start = NoVertex \/ edge.end = NoVertex
    THEN clip_infinite_edge(cell_coords, edge, eta)
    ELSE IF edge.is_linear
         THEN AddEndVertices(cell_coords, edge)
         ELSE IF edge.unsolvable
              THEN OnUnsolvableParabola(cell_coords, edge)
              ELSE cell_coords \o edge.curve

\* Lines 88-108: the coordinates of one cell.
RECURSIVE CellCoords(_, _, _)
CellCoords(edges, cell_coords, eta) ==
    IF edges = <<>> THEN cell_coords
    ELSE CellCoords(Tail(edges), ProcessEdge(cell_coords, Head(edges), eta), eta)

\* Lines 83-109: cell_identifier -> coordinates.
get_cells_coordiates(cells, eta) ==
    [c \in {cells[k].cell_identifier : k \in 1..Len(cells)} |->
        CellCoords(cells[CHOOSE k \in 1..Len(cells) : cells[k].cell_identifier = c].edges, <<>>, eta)]

\* ------------------------------------------------------------------------
\* PyVoronoiHelper: polygons and the table of cells

\* Lines 67-73: the faces of the exterior ring's arrangement, as a MultiPolygon;
\* it is not valid when two faces have a segment in common.
repair_bowtie_polygon(polygon) ==
    [geom_type |-> "MultiPolygon",
     ring |-> <<>>,
     parts |-> IF Cardinality({polygon.ring[k] : k \in 1..Len(polygon.ring)}) >= 3
               THEN BowtieLobes(polygon.ring) ELSE {},
     is_valid |-> ~HasNaN(polygon.ring) /\ SpikeSplits(polygon.ring) = {}]

\* polygon.buffer(0.0): the cleaned polygon; the ring's area as one part.
BufferZero(polygon) ==
    [geom_type |-> "Polygon", ring |-> <<>>, parts |-> polygon.parts,
     is_valid |-> ~HasNaN(polygon.ring)]

\* A slip in line 63: the buffer of the bowtie result is returned.
BufferOfRepaired(polygon, bowtie_repaired_polygon) == BufferZero(bowtie_repaired_polygon)

\* Line 63: the last resort when the bowtie result is not valid.
LastResort(polygon, bowtie_repaired_polygon) == BufferZero(polygon)

\* Lines 58-65.
repair_polygon(polygon) ==
    LET bowtie_repaired_polygon == repair_bowtie_polygon(polygon)
    IN  IF ~bowtie_repaired_polygon.is_valid
        THEN LastResort(polygon, bowtie_repaired_polygon)
        ELSE bowtie_repaired_polygon

\* A slip in line 50: two coordinates are enough.
EnoughCoordinatesTwo(coords) == Len(coords) > 1

\* Line 50: the cell has enough coordinates for a polygon.
EnoughCoordinates(coords) == Len(coords) > 2

\* A slip in line 52: every polygon is handed to repair_polygon.
NeedsRepairAlways(polygon) == TRUE

\* Line 52: the polygon is handed to repair_polygon.
NeedsRepair(polygon) == ~polygon.is_valid

\* Line 43.
DiagonalLength(bb) == Norm(<<bb[1][1] - bb[2][1], bb[1][2] - bb[2][2]>>)

\* Lines 50-55: the trimmed polygon of one cell.
TrimmedPolygon(coords, bb) ==
    LET polygon == Polygon(coords)
    IN  Intersection(IF NeedsRepair(polygon) THEN repair_polygon(polygon) ELSE polygon, bb)

\* Line 38: the value of the column "id" for a cell.
CellId(cell) == cell.cell_identifier

\* Lines 32-56: get_cells_as_gdf, the rows [id, geometry] in the order of the
\* cells, one for each cell with more than two coordinates.
RECURSIVE CellRows(_, _, _)
CellRows(cells, eta, bb) ==
    IF cells = <<>> THEN <<>>
    ELSE LET coords == CellCoords(Head(cells).edges, <<>>, eta)
         IN  (IF EnoughCoordinates(coords)
              THEN <<[id |-> CellId(Head(cells)), geometry |-> TrimmedPolygon(coords, bb)]>>
              ELSE <<>>) \o CellRows(Tail(cells), eta, bb)

get_cells_as_gdf(cells, bb) == CellRows(cells, DiagonalLength(bb), bb)

\* ------------------------------------------------------------------------
\* The diagram builder (pyvoronoi / boost.polygon), an external library

\* Lines 22-27: the sites in the order they are added, points first.
AddSites(points, segments) ==
    [k \in 1..Len(points) |-> [kind |-> "point", geom |-> points[k]]]
       \o [k \in 1..Len(segments) |-> [kind |-> "segment", geom |-> segments[k]]]

\* The index of a site: its place in the order of insertion, from 0.
SiteIndex(sites, kind, geom) ==
    (CHOOSE k \in 1..Len(sites) : sites[k].kind = kind /\ sites[k].geom = geom) - 1

NoSite == [contains_point |-> FALSE, contains_segment |-> FALSE,
           point |-> <<0, 0>>, segment |-> <<<<0, 0>>, <<0, 0>>>>]

LinearEdge(a, b) ==
    [start |-> a, end |-> b, is_linear |-> TRUE, curve |-> <<>>, unsolvable |-> FALSE,
     cell |-> NoSite, twin |-> NoSite]

Shift(o, dx, dy) == <<o[1] + dx, o[2] + dy>>

\* The boundary edges of a cell, by shape, in the unit tile at o: a triangle;
\* a ring that crosses itself once; a cell of one edge; a triangle that lies
\* beside every bounding box.
ShapeEdges(shape, o) ==
    CASE shape = "bowtie" ->
            <<LinearEdge(o, Shift(o, 1, 1)), LinearEdge(Shift(o, 1, 1), Shift(o, 1, 0)),
              LinearEdge(Shift(o, 1, 0), Shift(o, 0, 1)), LinearEdge(Shift(o, 0, 1), o)>>
      [] shape = "sliver" -> <<LinearEdge(o, Shift(o, 1, 0))>>
      [] shape = "away" ->
            <<LinearEdge(Shift(o, 10, 0), Shift(o, 11, 0)),
              LinearEdge(Shift(o, 11, 0), Shift(o, 10, 1)),
              LinearEdge(Shift(o, 10, 1), Shift(o, 10, 0))>>
      [] OTHER ->
            <<LinearEdge(o, Shift(o, 1, 0)), LinearEdge(Shift(o, 1, 0), Shift(o, 0, 1)),
              LinearEdge(Shift(o, 0, 1), o)>>

\* boost orders the cells by their sites, lexicographically by the lower end
\* point, a point before the segments that start there.
PointKey(v) == Coord(v)[1] * 4 + Coord(v)[2]

LowEnd(e) == CHOOSE v \in e : \A w \in e : PointKey(v) <= PointKey(w)

HighEnd(e) == CHOOSE v \in e : \A w \in e : PointKey(v) >= PointKey(w)

CellKey(d) ==
    IF d.kind = "point" THEN PointKey(d.v) * 100
    ELSE PointKey(LowEnd(d.e)) * 100 + 1 + PointKey(HighEnd(d.e))

\* The cells boost makes of segment sites: one for each segment and one for
\* each distinct end point, which belongs to one of the segments that end there.
CellDescriptors(segments, owner) ==
    {[kind |-> "segment", e |-> segments[k], v |-> 0, site |-> k - 1] : k \in 1..Len(segments)}
       \cup {[kind |-> "point", e |-> {}, v |-> v, site |-> owner[v]] :
                v \in UNION {segments[k] : k \in 1..Len(segments)}}

EndPointOwners(segments) ==
    LET ends == UNION {segments[k] : k \in 1..Len(segments)}
    IN  {f \in [ends -> 0..(Len(segments) - 1)] : \A v \in ends : v \in segments[f[v] + 1]}

\* The diagram of the segments: the cells in boost's order, each with the
\* shape the builder gave it (the cells in `odd` that of `shape`).
MakeCells(segments, owner, odd, shape) ==
    LET ds == CellDescriptors(segments, owner)
        pos(d) == Cardinality({x \in ds : CellKey(x) < CellKey(d)})
    IN  [n \in 1..Cardinality(ds) |->
            LET d == CHOOSE x \in ds : pos(x) = n - 1
            IN  [cell_identifier |-> n - 1,
                 site |-> d.site,
                 contains_point |-> d.kind = "point",
                 contains_segment |-> d.kind = "segment",
                 edges |-> ShapeEdges(IF (n - 1) \in odd THEN shape ELSE "triangle",
                                      <<(n - 1) % 4, (n - 1) \div 4>>)]]

\* The diagrams Construct() can hand over for the segments: every cell a
\* triangle, or one cell, or all the cells of one site, of another shape.
Diagrams(segments) ==
    {MakeCells(segments, owner, {}, "triangle") : owner \in EndPointOwners(segments)}
       \cup UNION {UNION {
               LET plain == MakeCells(segments, owner, {}, "triangle")
                   ids == {plain[n].cell_identifier : n \in 1..Len(plain)}
                   odds == {{c} : c \in ids}
                              \cup {{plain[n].cell_identifier : n \in {m \in 1..Len(plain) : plain[m].site = k}} :
                                       k \in 0..(Len(segments) - 1)}
               IN  {MakeCells(segments, owner, odd, shape) : odd \in odds}
               : shape \in {"bowtie", "sliver", "away"}}
            : owner \in EndPointOwners(segments)}

\* ------------------------------------------------------------------------
\* State

VARIABLES
    pc,                   \* position in compute_voronoi_cells_from_lines
    error,                \* the exception that ended the call, "" if none
    lines,                \* the input list of lines
    all_split_lines,      \* split_as_simple_segments: the global list
    split_lines_mapping,  \* line index -> list of sub-segments (defaultdict(list))
    i,                    \* split_as_simple_segments: the for loop's line index
    j,                    \* cursor in all_split_lines
    sub_line,             \* all_split_lines[j] as last read
    end_mapping,          \* the global list is exhausted
    all_segments,         \* the segments handed to PyVoronoiHelper
    sites,                \* the builder's sites, in the order they were added
    cells,                \* the diagram's cells, by cell_identifier
    gdf,                  \* the table of cells
    ct,                   \* the aggregation's site counter
    agg_i,                \* the aggregation's line index (the loop of line 221)
    seg_k,                \* the sub-segments of line agg_i already visited
    line_polygons,        \* the polygons gathered for line agg_i
    gdf_lines,            \* the result table
    eta,                  \* get_cells_coordiates: the projection distance
    cell,                 \* get_cells_coordiates: the cell c of the outer loop
    edge,                 \* the edge of the inner loop, once it is handled
    cell_coords,          \* the coordinates of the cell so far
    coords_to_add,        \* the points a curved edge has yielded
    cells_coordinates,    \* cell_identifier -> coordinates
    nb_cells,             \* the cells handled so far
    nb_edges,             \* the edges of the cell handled so far
    bounding_box_coords,  \* PyVoronoiHelper's bounding box
    polygon,              \* get_cells_as_polygons: the polygon of the cell in hand
    cells_as_polygons,    \* cell_identifier -> trimmed polygon
    repaired,             \* repair_polygon was called for the cell in hand
    graph,                \* get_new_node_unique_name: the nodes of the graph
    name,                 \* the initial node name
    unique_name,          \* the candidate name
    unique_ct             \* the counter ct of get_new_node_unique_name

splitVars == <<all_split_lines, split_lines_mapping, i, j, sub_line, end_mapping>>

buildVars == <<all_segments, sites, cells>>

aggVars == <<gdf, ct, agg_i, seg_k, line_polygons, gdf_lines>>

walkVars == <<eta, cell, edge, cell_coords, coords_to_add, cells_coordinates, nb_cells, nb_edges>>

polyVars == <<bounding_box_coords, polygon, cells_as_polygons, repaired>>

nameVars == <<graph, name, unique_name, unique_ct>>

vars == <<pc, error, lines, splitVars, buildVars, aggVars, walkVars, polyVars, nameVars>>

NoGeom == [geom_type |-> "None", edges |-> {}]

\* ------------------------------------------------------------------------
\* split_linestring_as_simple_linestrings(MultiLineString(lines))

\* Lines 163-171: the lists the call can return; none when list(mls) raises
\* (a lone LineString is not iterable).
split_linestring_as_simple_linestrings(ls) ==
    IF ~IsSimpleMulti(ls)
    THEN LET mls == SelfIntersection(ls)
         IN  IF mls.geom_type = "MultiLineString" THEN PartOrders(mls) ELSE {}
    ELSE {<<MultiLineStringOf(ls)>>}

\* ------------------------------------------------------------------------
\* split_as_simple_segments

\* A slip in line 191: the cursor may pass the end of the list by one.
ExhaustedLate(jn, nb) == jn > nb

\* Line 191: the test that ends the mapping.
Exhausted(jn, nb) == jn >= nb

\* A slip in line 190: the cursor moves by two.
CursorAfterSkip(jn) == jn + 2

\* Line 190: j += 1.
CursorAfter(jn) == jn + 1

\* A slip in line 194: the segment after the cursor's is read.
NextSubLineSkipping(l, jn) == l[IF jn + 2 <= Len(l) THEN jn + 2 ELSE jn + 1]

\* Line 194: sub_line = all_split_lines[j], j counted from 0.
NextSubLine(l, jn) == l[jn + 1]

\* Lines 181-186.
SplitStart ==
    /\ pc = "start"
    /\ \/ /\ split_linestring_as_simple_linestrings(lines) = {}
          /\ pc' = "error"
          /\ error' = "TypeError"
          /\ UNCHANGED <<all_split_lines, sub_line>>
       \/ \E l \in split_linestring_as_simple_linestrings(lines) :
             /\ all_split_lines' = l
             /\ sub_line' = l[1]
             /\ pc' = "split_while"
             /\ UNCHANGED error
    /\ UNCHANGED <<lines, split_lines_mapping, i, j, end_mapping, buildVars, aggVars, walkVars, polyVars, nameVars>>

\* Lines 188-194: the while test holds.
SplitConsume ==
    /\ pc = "split_while"
    /\ BufferContains(lines[i + 1], sub_line)
    /\ split_lines_mapping' =
          [split_lines_mapping EXCEPT ![i] = Append(@, sub_line)]
    /\ j' = CursorAfter(j)
    /\ IF Exhausted(j', Len(all_split_lines))
       THEN /\ end_mapping' = TRUE
            /\ pc' = "split_done"
            /\ UNCHANGED <<sub_line, error>>
       ELSE IF j' + 1 > Len(all_split_lines)
            THEN /\ pc' = "error"
                 /\ error' = "IndexError"
                 /\ UNCHANGED <<sub_line, end_mapping>>
            ELSE /\ sub_line' = NextSubLine(all_split_lines, j')
                 /\ UNCHANGED <<pc, end_mapping, error>>
    /\ UNCHANGED <<lines, all_split_lines, i, buildVars, aggVars, walkVars, polyVars, nameVars>>

\* Lines 187-188, 195-197: the while test fails, on to the next line.
SplitNextLine ==
    /\ pc = "split_while"
    /\ ~BufferContains(lines[i + 1], sub_line)
    /\ IF i + 1 < Len(lines)
       THEN /\ i' = i + 1
            /\ UNCHANGED pc
       ELSE /\ pc' = "split_done"
            /\ UNCHANGED i
    /\ UNCHANGED <<error, lines, all_split_lines, split_lines_mapping, j, sub_line,
                   end_mapping, buildVars, aggVars, walkVars, polyVars, nameVars>>

\* ------------------------------------------------------------------------
\* compute_voronoi_cells_from_lines

\* list(s.coords): the two end points of a segment.
SegCoords(s) == CHOOSE e \in s.edges : TRUE

\* Line 210: the sub-segments of lines n, n + 1, ... in order.
RECURSIVE AllSegmentsFrom(_, _, _)
AllSegmentsFrom(mapping, n, nb_lines) ==
    IF n >= nb_lines THEN <<>>
    ELSE [k \in 1..Len(mapping[n]) |-> SegCoords(mapping[n][k])]
            \o AllSegmentsFrom(mapping, n + 1, nb_lines)

\* Lines 209-210.  A MultiLineString has no coords: reading them raises.
AllSegments ==
    /\ pc = "split_done"
    /\ IF \E n \in 0..(Len(lines) - 1) : \E k \in 1..Len(split_lines_mapping[n]) :
             split_lines_mapping[n][k].geom_type # "LineString"
       THEN /\ pc' = "error"
            /\ error' = "NotImplementedError"
            /\ UNCHANGED all_segments
       ELSE /\ all_segments' = AllSegmentsFrom(split_lines_mapping, 0, Len(lines))
            /\ pc' = "build"
            /\ UNCHANGED error
    /\ UNCHANGED <<lines, splitVars, sites, cells, aggVars, walkVars, polyVars, nameVars>>

\* A slip in lines 213-214: the exception is caught and the empty table returned.
AfterConstructionErrorCaught == "done"

\* Lines 213-214: where the call goes when the builder raises; nothing
\* catches the exception.
AfterConstructionError == "error"

\* Lines 211-213, 22-30: the builder accepts the segments.
Build ==
    /\ pc = "build"
    /\ sites' = AddSites(<<>>, all_segments)
    /\ cells' \in Diagrams(all_segments)
    /\ pc' = "cells"
    /\ UNCHANGED <<error, lines, splitVars, all_segments, aggVars, walkVars, polyVars, nameVars>>

\* Lines 211-213, 22-28: the builder rejects the n-th segment, or all of them
\* in Construct().
BuildFails ==
    /\ pc = "build"
    /\ all_segments # <<>>
    /\ \E n \in 1..Len(all_segments) : sites' = AddSites(<<>>, SubSeq(all_segments, 1, n))
    /\ error' = "VoronoiException"
    /\ pc' = AfterConstructionError
    /\ UNCHANGED <<lines, splitVars, all_segments, cells, aggVars, walkVars, polyVars, nameVars>>

\* Line 214.
GetCells ==
    /\ pc = "cells"
    /\ gdf' = get_cells_as_gdf(cells, BoundsOf(lines))
    /\ pc' = "filter"
    /\ UNCHANGED <<error, lines, splitVars, buildVars, ct, agg_i, seg_k, line_polygons, gdf_lines, walkVars, polyVars, nameVars>>

\* A slip in line 215: every row is kept.
IsAnyGeometry(geometry) == TRUE

\* Line 215: isinstance(geometry, Polygon).
IsPolygon(geometry) == geometry.geom_type = "Polygon"

\* Lines 215-220: the rows that are Polygons, with the site of each row's cell.
FilterSites ==
    /\ pc = "filter"
    /\ gdf' = LET kept == SelectSeq(gdf, LAMBDA row : IsPolygon(row.geometry))
              IN  [n \in 1..Len(kept) |->
                      [id |-> kept[n].id, geometry |-> kept[n].geometry,
                       site |-> cells[kept[n].id + 1].site]]
    /\ ct' = 0
    /\ pc' = "agg"
    /\ UNCHANGED <<error, lines, splitVars, buildVars, agg_i, seg_k, line_polygons, gdf_lines, walkVars, polyVars, nameVars>>

\* A slip in line 226: the counter moves in the inner loop, once per polygon.
CtPerPolygon(c, found) == c + found

\* Line 226: the counter after a sub-segment for which `found` polygons were
\* appended.
CtAfterSegment(c, found) == c + 1

\* Lines 223-226: one sub-segment of line agg_i.
AggSegment ==
    /\ pc = "agg"
    /\ seg_k < Len(split_lines_mapping[agg_i])
    /\ LET rows == SelectSeq(gdf, LAMBDA row : row.site = ct)
       IN  /\ line_polygons' = line_polygons \o [n \in 1..Len(rows) |-> rows[n].geometry]
           /\ ct' = CtAfterSegment(ct, Len(rows))
    /\ seg_k' = seg_k + 1
    /\ UNCHANGED <<pc, error, lines, splitVars, buildVars, gdf, agg_i, gdf_lines, walkVars, polyVars, nameVars>>

\* Lines 227-232, 221: the row of line agg_i, and on to the next line.
AggLine ==
    /\ pc = "agg"
    /\ seg_k = Len(split_lines_mapping[agg_i])
    /\ LET merged_polygon == CascadedUnion(line_polygons)
       IN  gdf_lines' =
              IF merged_polygon.geom_type = "GeometryCollection"
              THEN IF merged_polygon.parts = {}
                   THEN gdf_lines
                   ELSE Append(gdf_lines,
                               [id |-> agg_i,
                                geometry |-> [merged_polygon EXCEPT !.geom_type = "MultiPolygon"]])
              ELSE Append(gdf_lines, [id |-> agg_i, geometry |-> merged_polygon])
    /\ line_polygons' = <<>>
    /\ seg_k' = 0
    /\ agg_i' = agg_i + 1
    /\ pc' = IF agg_i + 1 < Len(lines) THEN "agg" ELSE "done"
    /\ UNCHANGED <<error, lines, splitVars, buildVars, gdf, ct, walkVars, polyVars, nameVars>>

\* ------------------------------------------------------------------------

NoCell == [cell_identifier |-> -1, contains_point |-> FALSE, contains_segment |-> FALSE,
           point |-> <<0, 0>>, segment |-> <<<<0, 0>>, <<0, 0>>>>]

NoEdge == [start |-> NoVertex, end |-> NoVertex, is_linear |-> TRUE, curve |-> <<>>,
           unsolvable |-> FALSE, cell |-> NoSite, twin |-> NoSite]

\* No call is under way.
PipelineIdle ==
    /\ error = ""
    /\ all_split_lines = <<>>
    /\ split_lines_mapping = [n \in 0..MaxLines |-> <<>>]
    /\ i = 0
    /\ j = 0
    /\ sub_line = NoGeom
    /\ end_mapping = FALSE
    /\ all_segments = <<>>
    /\ sites = <<>>
    /\ cells = <<>>
    /\ gdf = <<>>
    /\ ct = 0
    /\ agg_i = 0
    /\ seg_k = 0
    /\ line_polygons = <<>>
    /\ gdf_lines = <<>>

WalkIdle ==
    /\ cell = NoCell
    /\ edge = NoEdge
    /\ cell_coords = <<>>
    /\ coords_to_add = <<>>
    /\ cells_coordinates = <<>>
    /\ nb_cells = 0
    /\ nb_edges = 0

NoPolygon == [geom_type |-> "None", ring |-> <<>>, parts |-> {}, is_valid |-> TRUE]

PolygonsIdle ==
    /\ bounding_box_coords = <<<<0, 0>>, <<0, 0>>>>
    /\ polygon = NoPolygon
    /\ cells_as_polygons = <<>>
    /\ repaired = FALSE

NameIdle ==
    /\ graph = {}
    /\ name = <<>>
    /\ unique_name = <<>>
    /\ unique_ct = 0

Init ==
    /\ pc = "start"
    /\ lines \in InputLists
    /\ eta = 0
    /\ PipelineIdle
    /\ WalkIdle
    /\ PolygonsIdle
    /\ NameIdle

Next ==
    \/ SplitStart
    \/ SplitConsume
    \/ SplitNextLine
    \/ AllSegments
    \/ Build
    \/ BuildFails
    \/ GetCells
    \/ FilterSites
    \/ AggSegment
    \/ AggLine

Spec == Init /\ [][Next]_vars

\* ------------------------------------------------------------------------
\* get_cells_coordiates, edge by edge, on the diagrams of a bounded universe

\* Bounds of the walk: the cells of a diagram and the edges of a cell.
MaxCells == 2
MaxEdges == 2

\* The helper's bounding boxes; the diagonals are whole numbers.
Boxes == {<<<<0, 0>>, <<4, 3>>>>, <<<<0, 0>>, <<4, 0>>>>}

\* The sites a cell can have: an end point of a segment, the segment, and the
\* same of a segment whose two end points coincide.
CellSites ==
    {[contains_point |-> TRUE, contains_segment |-> FALSE,
      point |-> <<0, 0>>, segment |-> <<<<0, 0>>, <<4, 0>>>>],
     [contains_point |-> FALSE, contains_segment |-> TRUE,
      point |-> <<0, 0>>, segment |-> <<<<0, 0>>, <<4, 0>>>>],
     [contains_point |-> TRUE, contains_segment |-> FALSE,
      point |-> <<4, 2>>, segment |-> <<<<4, 2>>, <<4, 2>>>>],
     [contains_point |-> FALSE, contains_segment |-> TRUE,
      point |-> <<4, 2>>, segment |-> <<<<4, 2>>, <<4, 2>>>>]}

\* The sites of the cell beyond an unbounded edge: not two segments (boost
\* makes no unbounded edge between two segments), and two points on a line
\* parallel to an axis, or the same point twice.
TwinSites(site) ==
    {t \in CellSites \cup
             {[contains_point |-> TRUE, contains_segment |-> FALSE,
               point |-> <<4, 0>>, segment |-> <<<<0, 0>>, <<4, 0>>>>]} :
        /\ ~(site.contains_segment /\ t.contains_segment)
        /\ (site.contains_point /\ t.contains_point) =>
              (site.point[1] = t.point[1] \/ site.point[2] = t.point[2])}

\* The finite vertices of the diagrams.
VertexA == <<0, 0>>

VertexB == <<4, 0>>

VertexC == <<2, 2>>

VertexM == <<3, 1>>

FiniteEnds == {<<VertexA, VertexB>>, <<VertexB, VertexC>>, <<VertexC, VertexA>>}

LinearEdges(site) ==
    {[LinearEdge(ab[1], ab[2]) EXCEPT !.cell = site] : ab \in FiniteEnds}

\* A curved edge and the points its discretization yields, both ends included.
CurvedEdges(site) ==
    {[LinearEdge(ab[1], ab[2]) EXCEPT !.cell = site, !.is_linear = FALSE,
                                      !.curve = <<ab[1], VertexM, ab[2]>>] :
        ab \in FiniteEnds}

\* A curved edge whose discretization raises, after the points it yielded.
UnsolvableEdges(site) ==
    {[LinearEdge(ab[1], ab[2]) EXCEPT !.cell = site, !.is_linear = FALSE,
                                      !.unsolvable = TRUE, !.curve = partial] :
        ab \in FiniteEnds, partial \in {<<>>, <<VertexM>>}}

InfiniteEdges(site) ==
    {[LinearEdge(se[1], se[2]) EXCEPT !.cell = site, !.twin = t] :
        se \in {<<NoVertex, VertexA>>, <<VertexC, NoVertex>>}, t \in TwinSites(site)}

\* Lines 87-88: the next cell of the diagram.
CellStart ==
    /\ pc = "cells_loop"
    /\ nb_cells < MaxCells
    /\ \E site \in CellSites :
          cell' = [cell_identifier |-> nb_cells,
                   contains_point |-> site.contains_point,
                   contains_segment |-> site.contains_segment,
                   point |-> site.point, segment |-> site.segment]
    /\ cell_coords' = <<>>
    /\ coords_to_add' = <<>>
    /\ edge' = NoEdge
    /\ nb_edges' = 0
    /\ pc' = "edges"
    /\ UNCHANGED <<error, lines, splitVars, buildVars, aggVars, polyVars, nameVars, eta, cells_coordinates, nb_cells>>

SiteOfCell == [contains_point |-> cell.contains_point, contains_segment |-> cell.contains_segment,
               point |-> cell.point, segment |-> cell.segment]

\* Lines 93-94: an edge with a vertex at infinity.
InfiniteEdgeStep ==
    /\ pc = "edges"
    /\ nb_edges < MaxEdges
    /\ \E e \in InfiniteEdges(SiteOfCell) :
          /\ edge' = e
          /\ cell_coords' = ProcessEdge(cell_coords, e, eta)
    /\ nb_edges' = nb_edges + 1
    /\ UNCHANGED <<pc, error, lines, splitVars, buildVars, aggVars, polyVars, nameVars, eta, cell, coords_to_add,
                   cells_coordinates, nb_cells>>

\* Lines 96-98: a finite linear edge.
LinearEdgeStep ==
    /\ pc = "edges"
    /\ nb_edges < MaxEdges
    /\ \E e \in LinearEdges(SiteOfCell) :
          /\ edge' = e
          /\ cell_coords' = ProcessEdge(cell_coords, e, eta)
    /\ nb_edges' = nb_edges + 1
    /\ UNCHANGED <<pc, error, lines, splitVars, buildVars, aggVars, polyVars, nameVars, eta, cell, coords_to_add,
                   cells_coordinates, nb_cells>>

\* Lines 100-104: a curved edge, discretized.
CurvedEdgeStep ==
    /\ pc = "edges"
    /\ nb_edges < MaxEdges
    /\ \E e \in CurvedEdges(SiteOfCell) :
          /\ edge' = e
          /\ coords_to_add' = e.curve
          /\ cell_coords' = ProcessEdge(cell_coords, e, eta)
    /\ nb_edges' = nb_edges + 1
    /\ UNCHANGED <<pc, error, lines, splitVars, buildVars, aggVars, polyVars, nameVars, eta, cell,
                   cells_coordinates, nb_cells>>

\* Lines 100-107: a curved edge whose discretization raises.
UnsolvableEdgeStep ==
    /\ pc = "edges"
    /\ nb_edges < MaxEdges
    /\ \E e \in UnsolvableEdges(SiteOfCell) :
          /\ edge' = e
          /\ coords_to_add' = e.curve
          /\ cell_coords' = ProcessEdge(cell_coords, e, eta)
    /\ nb_edges' = nb_edges + 1
    /\ UNCHANGED <<pc, error, lines, splitVars, buildVars, aggVars, polyVars, nameVars, eta, cell,
                   cells_coordinates, nb_cells>>

\* Line 108: the cell has no more edges.
CellEnd ==
    /\ pc = "edges"
    /\ cells_coordinates' = (cell.cell_identifier :> cell_coords) @@ cells_coordinates
    /\ nb_cells' = nb_cells + 1
    /\ pc' = "cells_loop"
    /\ UNCHANGED <<error, lines, splitVars, buildVars, aggVars, polyVars, nameVars, eta, cell, edge, cell_coords,
                   coords_to_add, nb_edges>>

\* Line 109: the diagram has no more cells.
CoordsReturn ==
    /\ pc = "cells_loop"
    /\ pc' = "coords_done"
    /\ UNCHANGED <<error, lines, splitVars, buildVars, aggVars, walkVars, polyVars, nameVars>>

\* Lines 43-45: called by get_cells_as_polygons, eta is the box's diagonal.
InitCells ==
    /\ pc = "cells_loop"
    /\ lines = <<>>
    /\ \E bb \in Boxes : eta = DiagonalLength(bb)
    /\ PipelineIdle
    /\ WalkIdle
    /\ PolygonsIdle
    /\ NameIdle

NextCells ==
    \/ CellStart
    \/ InfiniteEdgeStep
    \/ LinearEdgeStep
    \/ CurvedEdgeStep
    \/ UnsolvableEdgeStep
    \/ CellEnd
    \/ CoordsReturn

SpecCells == InitCells /\ [][NextCells]_vars

\* ------------------------------------------------------------------------
\* get_cells_as_polygons, cell by cell

\* Bound: the cells of a diagram handed to get_cells_as_polygons.
MaxPolygonCells == 2

\* An unbounded edge between two cells of the same point: its direction has
\* no length.
CoincidentEdge(o) ==
    LET site == [contains_point |-> TRUE, contains_segment |-> FALSE,
                 point |-> o, segment |-> <<o, o>>]
    IN  [LinearEdge(NoVertex, o) EXCEPT !.cell = site, !.twin = site]

\* The boundary edges of a cell, by shape, in the tile at o: the shapes of
\* ShapeEdges, and a cell without edges; a cell of one edge from a vertex to
\* itself; a square with a segment run along twice that cuts it in two; a cell
\* with a coordinate that is not a number.
PolygonShapeEdges(shape, o) ==
    CASE shape = "empty" -> <<>>
      [] shape = "dot" -> <<LinearEdge(o, o)>>
      [] shape = "split" ->
            <<LinearEdge(o, Shift(o, 1, 0)), LinearEdge(Shift(o, 1, 0), Shift(o, 2, 0)),
              LinearEdge(Shift(o, 2, 0), Shift(o, 2, 2)), LinearEdge(Shift(o, 2, 2), Shift(o, 1, 2)),
              LinearEdge(Shift(o, 1, 2), Shift(o, 1, 0)), LinearEdge(Shift(o, 1, 0), Shift(o, 1, 2)),
              LinearEdge(Shift(o, 1, 2), Shift(o, 0, 2)), LinearEdge(Shift(o, 0, 2), o)>>
      [] shape = "nan" ->
            <<CoincidentEdge(o), LinearEdge(o, Shift(o, 1, 0)),
              LinearEdge(Shift(o, 1, 0), Shift(o, 0, 1))>>
      [] OTHER -> ShapeEdges(shape, o)

PolygonShapes == {"triangle", "bowtie", "sliver", "away", "empty", "dot", "split", "nan"}

\* The diagrams: up to MaxPolygonCells cells, each of one of the shapes, the
\* cell of identifier n in the tile at (n, 0).
PolygonDiagrams ==
    {[n \in 1..Len(shapes) |->
         [cell_identifier |-> n - 1, site |-> n - 1,
          contains_point |-> FALSE, contains_segment |-> TRUE,
          edges |-> PolygonShapeEdges(shapes[n], <<n - 1, 0>>)]] :
        shapes \in UNION {[1..m -> PolygonShapes] : m \in 1..MaxPolygonCells}}

\* The cell the loop of line 49 is at, and its coordinates.
CellInHand == cells[nb_cells + 1]

CoordsInHand == cells_coordinates[CellInHand.cell_identifier]

\* Lines 43-48.
PolygonsStart ==
    /\ pc = "polygons_start"
    /\ eta' = DiagonalLength(bounding_box_coords)
    /\ cells_coordinates' = get_cells_coordiates(cells, eta')
    /\ cells_as_polygons' = <<>>
    /\ pc' = "polygons_loop"
    /\ UNCHANGED <<error, lines, splitVars, buildVars, aggVars, cell, edge, cell_coords,
                   coords_to_add, nb_cells, nb_edges, bounding_box_coords, polygon, repaired,
                   nameVars>>

\* Lines 49-50: a cell without enough coordinates.
PolygonsSkip ==
    /\ pc = "polygons_loop"
    /\ nb_cells < Len(cells)
    /\ ~EnoughCoordinates(CoordsInHand)
    /\ cell_coords' = CoordsInHand
    /\ nb_cells' = nb_cells + 1
    /\ UNCHANGED <<pc, error, lines, splitVars, buildVars, aggVars, eta, cell, edge,
                   coords_to_add, cells_coordinates, nb_edges, polyVars, nameVars>>

\* Lines 49-51: the polygon of the cell's coordinates.
PolygonsConstruct ==
    /\ pc = "polygons_loop"
    /\ nb_cells < Len(cells)
    /\ EnoughCoordinates(CoordsInHand)
    /\ cell_coords' = CoordsInHand
    /\ polygon' = Polygon(CoordsInHand)
    /\ repaired' = FALSE
    /\ pc' = "polygon_made"
    /\ UNCHANGED <<error, lines, splitVars, buildVars, aggVars, eta, cell, edge, coords_to_add,
                   cells_coordinates, nb_cells, nb_edges, bounding_box_coords,
                   cells_as_polygons, nameVars>>

\* Lines 52-53: the polygon is not valid.
PolygonsRepair ==
    /\ pc = "polygon_made"
    /\ NeedsRepair(polygon)
    /\ polygon' = repair_polygon(polygon)
    /\ repaired' = TRUE
    /\ pc' = "polygon_clip"
    /\ UNCHANGED <<error, lines, splitVars, buildVars, aggVars, walkVars, bounding_box_coords,
                   cells_as_polygons, nameVars>>

\* Line 52: the polygon is valid.
PolygonsKeep ==
    /\ pc = "polygon_made"
    /\ ~NeedsRepair(polygon)
    /\ pc' = "polygon_clip"
    /\ UNCHANGED <<error, lines, splitVars, buildVars, aggVars, walkVars, polyVars, nameVars>>

\* Lines 54-55.
PolygonsClip ==
    /\ pc = "polygon_clip"
    /\ cells_as_polygons' =
          (CellInHand.cell_identifier :> Intersection(polygon, bounding_box_coords))
             @@ cells_as_polygons
    /\ nb_cells' = nb_cells + 1
    /\ pc' = "polygons_loop"
    /\ UNCHANGED <<error, lines, splitVars, buildVars, aggVars, eta, cell, edge, cell_coords,
                   coords_to_add, cells_coordinates, nb_edges, bounding_box_coords, polygon,
                   repaired, nameVars>>

\* Line 54: GEOS can refuse an operand that is not valid.
PolygonsClipFails ==
    /\ pc = "polygon_clip"
    /\ ~polygon.is_valid
    /\ error' = "TopologicalError"
    /\ pc' = "error"
    /\ UNCHANGED <<lines, splitVars, buildVars, aggVars, walkVars, polyVars, nameVars>>

\* Line 56.
PolygonsReturn ==
    /\ pc = "polygons_loop"
    /\ nb_cells = Len(cells)
    /\ pc' = "polygons_done"
    /\ UNCHANGED <<error, lines, splitVars, buildVars, aggVars, walkVars, polyVars, nameVars>>

\* A helper on a diagram of the catalogue, before get_cells_as_polygons.
InitPolygons ==
    /\ pc = "polygons_start"
    /\ lines = <<>>
    /\ error = ""
    /\ all_split_lines = <<>>
    /\ split_lines_mapping = [n \in 0..MaxLines |-> <<>>]
    /\ i = 0
    /\ j = 0
    /\ sub_line = NoGeom
    /\ end_mapping = FALSE
    /\ all_segments = <<>>
    /\ sites = <<>>
    /\ cells \in PolygonDiagrams
    /\ gdf = <<>>
    /\ ct = 0
    /\ agg_i = 0
    /\ seg_k = 0
    /\ line_polygons = <<>>
    /\ gdf_lines = <<>>
    /\ eta = 0
    /\ WalkIdle
    /\ bounding_box_coords \in Boxes
    /\ polygon = NoPolygon
    /\ cells_as_polygons = <<>>
    /\ repaired = FALSE
    /\ NameIdle

NextPolygons ==
    \/ PolygonsStart
    \/ PolygonsSkip
    \/ PolygonsConstruct
    \/ PolygonsRepair
    \/ PolygonsKeep
    \/ PolygonsClip
    \/ PolygonsClipFails
    \/ PolygonsReturn

SpecPolygons == InitPolygons /\ [][NextPolygons]_vars

\* ------------------------------------------------------------------------
\* get_cells_as_polygons on the diagrams of three point sites

\* The point sites handed to PyVoronoiHelper(points, []), in counter-clockwise
\* order.  The coordinates are even, so that the middle of two sites is a
\* whole point, and so are the three sites' circumcentres.
PointSiteLists ==
    {<<<<0, 0>>, <<22, 0>>, <<16, 12>>>>,
     <<<<0, 0>>, <<28, 0>>, <<16, 12>>>>,
     <<<<0, 0>>, <<14, 0>>, <<8, 6>>>>,
     <<<<0, 0>>, <<8, 0>>, <<0, 6>>>>,
     <<<<0, 0>>, <<16, 0>>, <<0, 12>>>>}

\* The bounding boxes handed over with them; the diagonals are whole numbers.
RayBoxes ==
    {<<<<0, 0>>, <<16, 12>>>>, <<<<0, 0>>, <<24, 18>>>>, <<<<0, 0>>, <<28, 21>>>>,
     <<<<0, 0>>, <<32, 24>>>>, <<<<0, 0>>, <<40, 30>>>>}

\* The cell of the k-th site.  The one vertex of the diagram of three sites is
\* the point as far from each.  The edge shared with the next site comes in
\* from infinity to the vertex, and the edge shared with the site before
\* leaves from the vertex to infinity (the edges of a cell run
\* counter-clockwise).
PointCellEdges(points, k) ==
    LET squared(p, q) == (p[1] - q[1]) * (p[1] - q[1]) + (p[2] - q[2]) * (p[2] - q[2])
        v == CHOOSE c \in (0..16) \X (-4..8) :
                /\ squared(c, points[1]) = squared(c, points[2])
                /\ squared(c, points[1]) = squared(c, points[3])
        site(p) == [contains_point |-> TRUE, contains_segment |-> FALSE,
                    point |-> p, segment |-> <<p, p>>]
        next == points[(k % 3) + 1]
        before == points[((k + 1) % 3) + 1]
    IN  <<[LinearEdge(NoVertex, v) EXCEPT !.cell = site(points[k]), !.twin = site(next)],
          [LinearEdge(v, NoVertex) EXCEPT !.cell = site(points[k]), !.twin = site(before)]>>

\* The cells followed, in the order of their identifiers: boost numbers the
\* cells by their sites, sorted by x and then by y.  A cell is followed when
\* its coordinates are whole numbers in the box: the lengths of both ray
\* directions are whole and divide the directions scaled by the diagonal.  The
\* other cells of the diagram are not followed.
PointCells(points, bb) ==
    LET square(n) == \E r \in 0..n : r * r = n
        whole == {k \in 1..3 :
                     \A e \in {PointCellEdges(points, k)[n] : n \in 1..2} :
                         LET v == RidgeDirection(e)
                         IN  /\ square(v[1] * v[1] + v[2] * v[2])
                             /\ (v[1] * DiagonalLength(bb)) % Norm(v) = 0
                             /\ (v[2] * DiagonalLength(bb)) % Norm(v) = 0}
        rank(k) == Cardinality({n \in 1..3 :
                                   \/ points[n][1] < points[k][1]
                                   \/ points[n][1] = points[k][1] /\ points[n][2] < points[k][2]})
        nth(n) == CHOOSE k \in whole : Cardinality({m \in whole : rank(m) < rank(k)}) = n - 1
    IN  [n \in 1..Cardinality(whole) |->
            [cell_identifier |-> rank(nth(n)), site |-> nth(n) - 1,
             contains_point |-> TRUE, contains_segment |-> FALSE,
             edges |-> PointCellEdges(points, nth(n))]]

\* q is a point of the closed polygon of the ring: it lies on a segment of the
\* ring, or the ray from q to the right meets an odd number of segments.
InPolygon(q, ring) ==
    LET on(a, b) == /\ Turn(a, b, q) = 0
                    /\ (q[1] - a[1]) * (q[1] - b[1]) <= 0
                    /\ (q[2] - a[2]) * (q[2] - b[2]) <= 0
        right(a, b) == /\ (a[2] > q[2]) # (b[2] > q[2])
                       /\ IF b[2] > a[2]
                          THEN (q[1] - a[1]) * (b[2] - a[2]) < (b[1] - a[1]) * (q[2] - a[2])
                          ELSE (q[1] - a[1]) * (b[2] - a[2]) > (b[1] - a[1]) * (q[2] - a[2])
    IN  \/ \E k \in 1..(Len(ring) - 1) : on(ring[k], ring[k + 1])
        \/ Cardinality({k \in 1..(Len(ring) - 1) : right(ring[k], ring[k + 1])}) % 2 = 1

\* polygon.intersection(bounding_box) of a valid polygon, by the points of
\* the box it holds: one part, the probes in the polygon.  The probes are the
\* box's corners, the point a step inside each corner, and the middle.
IntersectionAtProbes(geom, bb) ==
    LET x0 == bb[1][1]
        y0 == bb[1][2]
        x1 == bb[2][1]
        y1 == bb[2][2]
        probes == {<<x0, y0>>, <<x1, y0>>, <<x0, y1>>, <<x1, y1>>,
                   <<x0 + 1, y0 + 1>>, <<x1 - 1, y0 + 1>>, <<x0 + 1, y1 - 1>>,
                   <<x1 - 1, y1 - 1>>, <<(x0 + x1) \div 2, (y0 + y1) \div 2>>}
        held == {q \in probes : InPolygon(q, geom.ring)}
    IN  [geom_type |-> IF held = {} THEN "GeometryCollection" ELSE "Polygon",
         ring |-> <<>>, parts |-> IF held = {} THEN {} ELSE {held}, is_valid |-> TRUE]

\* Lines 43-44.
RaysStart ==
    /\ pc = "rays_start"
    /\ eta' = DiagonalLength(bounding_box_coords)
    /\ pc' = "rays_cells"
    /\ UNCHANGED <<error, lines, splitVars, buildVars, aggVars, cell, edge, cell_coords,
                   coords_to_add, cells_coordinates, nb_cells, nb_edges, polyVars, nameVars>>

\* Lines 87-88.
RaysCell ==
    /\ pc = "rays_cells"
    /\ nb_cells < Len(cells)
    /\ cell' = cells[nb_cells + 1]
    /\ cell_coords' = <<>>
    /\ nb_edges' = 0
    /\ pc' = "rays_edges"
    /\ UNCHANGED <<error, lines, splitVars, buildVars, aggVars, eta, edge, coords_to_add,
                   cells_coordinates, nb_cells, polyVars, nameVars>>

\* Lines 89-94.
RaysEdge ==
    /\ pc = "rays_edges"
    /\ nb_edges < Len(cell.edges)
    /\ edge' = cell.edges[nb_edges + 1]
    /\ cell_coords' = ProcessEdge(cell_coords, edge', eta)
    /\ nb_edges' = nb_edges + 1
    /\ UNCHANGED <<pc, error, lines, splitVars, buildVars, aggVars, eta, cell, coords_to_add,
                   cells_coordinates, nb_cells, polyVars, nameVars>>

\* Line 108.
RaysCellEnd ==
    /\ pc = "rays_edges"
    /\ nb_edges = Len(cell.edges)
    /\ cells_coordinates' = (cell.cell_identifier :> cell_coords) @@ cells_coordinates
    /\ nb_cells' = nb_cells + 1
    /\ pc' = "rays_cells"
    /\ UNCHANGED <<error, lines, splitVars, buildVars, aggVars, eta, cell, edge, cell_coords,
                   coords_to_add, nb_edges, polyVars, nameVars>>

\* Lines 109, 45-56: the polygons of the cells, each of them valid, trimmed.
RaysPolygons ==
    /\ pc = "rays_cells"
    /\ nb_cells = Len(cells)
    /\ \A id \in DOMAIN cells_coordinates :
          EnoughCoordinates(cells_coordinates[id]) => ~NeedsRepair(Polygon(cells_coordinates[id]))
    /\ cells_as_polygons' =
          [id \in {c \in DOMAIN cells_coordinates : EnoughCoordinates(cells_coordinates[c])} |->
              IntersectionAtProbes(Polygon(cells_coordinates[id]), bounding_box_coords)]
    /\ pc' = "rays_done"
    /\ UNCHANGED <<error, lines, splitVars, buildVars, aggVars, walkVars, bounding_box_coords,
                   polygon, repaired, nameVars>>

\* A helper on three point sites and a box that holds them.
InitRays ==
    /\ pc = "rays_start"
    /\ lines = <<>>
    /\ error = ""
    /\ all_split_lines = <<>>
    /\ split_lines_mapping = [n \in 0..MaxLines |-> <<>>]
    /\ i = 0
    /\ j = 0
    /\ sub_line = NoGeom
    /\ end_mapping = FALSE
    /\ all_segments = <<>>
    /\ \E points \in PointSiteLists :
          /\ sites = AddSites(points, <<>>)
          /\ bounding_box_coords \in {bb \in RayBoxes : \A k \in 1..3 : InBox(points[k], bb)}
          /\ cells = PointCells(points, bounding_box_coords)
    /\ gdf = <<>>
    /\ ct = 0
    /\ agg_i = 0
    /\ seg_k = 0
    /\ line_polygons = <<>>
    /\ gdf_lines = <<>>
    /\ eta = 0
    /\ WalkIdle
    /\ polygon = NoPolygon
    /\ cells_as_polygons = <<>>
    /\ repaired = FALSE
    /\ NameIdle

NextRays ==
    \/ RaysStart
    \/ RaysCell
    \/ RaysEdge
    \/ RaysCellEnd
    \/ RaysPolygons

SpecRays == InitRays /\ [][NextRays]_vars

\* ------------------------------------------------------------------------
\* get_new_node_unique_name

\* A node name: a string, or an integer, with its text as str() gives it, a
\* sequence of characters.
StrName(text) == [kind |-> "str", text |-> text]

IntName(text) == [kind |-> "int", text |-> text]

\* "%d" % n: the decimal digits of n, n >= 0.
DigitChars == <<"0", "1", "2", "3", "4", "5", "6", "7", "8", "9">>

RECURSIVE Decimal(_)
Decimal(n) ==
    IF n < 10 THEN <<DigitChars[n + 1]>>
    ELSE Decimal(n \div 10) \o <<DigitChars[(n % 10) + 1]>>

\* A slip in line 70: the counter is left out of the name.
FormatWithoutCounter(node_name, c) == StrName(node_name.text \o <<"_">>)

\* Line 70: "%s_%d" % (str(name), ct).
Format(node_name, c) == StrName(node_name.text \o <<"_">> \o Decimal(c))

\* The names the nodes of the graphs are taken from.
NodeNames ==
    {StrName(<<"a">>), StrName(<<"a", "_", "2">>), StrName(<<"a", "_", "3">>),
     IntName(<<"7">>), StrName(<<"7">>), StrName(<<"7", "_", "2">>)}

\* The initial names the function is called with.
InitialNames == {StrName(<<"a">>), StrName(<<"a", "_", "2">>), IntName(<<"7">>), StrName(<<"b">>)}

\* Lines 63-67: the name is free and is returned, or the loop is entered.
NameCheck ==
    /\ pc = "name_start"
    /\ IF name \notin graph
       THEN /\ unique_name' = name
            /\ pc' = "name_returned"
            /\ UNCHANGED unique_ct
       ELSE /\ unique_ct' = 1
            /\ unique_name' = name
            /\ pc' = "name_while"
    /\ UNCHANGED <<error, lines, splitVars, buildVars, aggVars, walkVars, polyVars, graph, name>>

\* Lines 68-70: the candidate is a node.
NameLoop ==
    /\ pc = "name_while"
    /\ unique_name \in graph
    /\ unique_ct' = unique_ct + 1
    /\ unique_name' = Format(name, unique_ct')
    /\ UNCHANGED <<pc, error, lines, splitVars, buildVars, aggVars, walkVars, polyVars, graph, name>>

\* Lines 68, 71: the candidate is no node and is returned.
NameReturn ==
    /\ pc = "name_while"
    /\ unique_name \notin graph
    /\ pc' = "name_returned"
    /\ UNCHANGED <<error, lines, splitVars, buildVars, aggVars, walkVars, polyVars, nameVars>>

InitName ==
    /\ pc = "name_start"
    /\ lines = <<>>
    /\ eta = 0
    /\ PipelineIdle
    /\ WalkIdle
    /\ PolygonsIdle
    /\ graph \in SUBSET NodeNames
    /\ name \in InitialNames
    /\ unique_name = <<>>
    /\ unique_ct = 0

NextName ==
    \/ NameCheck
    \/ NameLoop
    \/ NameReturn

SpecName == InitName /\ [][NextName]_vars

\* ------------------------------------------------------------------------
\* What the claims speak of

NbLines == Len(lines)

\* The coordinate lists and trimmed polygons of the diagram in hand.
Eta == DiagonalLength(BoundsOf(lines))

\* The parts of a cell after clipping; none for a cell of fewer than three
\* coordinates, which has no polygon.
ClippedParts(c) ==
    LET coords == CellCoords(c.edges, <<>>, Eta)
    IN  IF Len(coords) > 2 THEN TrimmedPolygon(coords, BoundsOf(lines)).parts ELSE {}

IsSite(e) == \E k \in 1..Len(all_segments) : all_segments[k] = e

\* The cell of the segment site e.
SegmentCell(e) ==
    cells[CHOOSE n \in 1..Len(cells) :
             cells[n].contains_segment /\ sites[cells[n].site + 1].geom = e]

\* The site indices of the sub-segments of line n.
SitesOfLine(n) ==
    {k - 1 : k \in {m \in 1..Len(all_segments) :
                      \E q \in 1..Len(split_lines_mapping[n]) :
                         SegCoords(split_lines_mapping[n][q]) = all_segments[m]}}

\* The union of every clipped cell whose site is a sub-segment of line n.
CellsOfLine(n) ==
    UNION {ClippedParts(cells[c]) : c \in {m \in 1..Len(cells) : cells[m].site \in SitesOfLine(n)}}

\* A row's geometry contains line n: each segment of the line that is a site
\* lies in its own cell, and that cell is part of the row.  A segment of the
\* line that is no site lies in the cells around it; it is counted as covered.
RowContainsLine(row, n) ==
    \A e \in EdgesOf(lines[n + 1]) :
       IsSite(e) =>
          /\ ClippedParts(SegmentCell(e)) # {}
          /\ ClippedParts(SegmentCell(e)) \subseteq row.geometry.parts

\* C1: when compute_voronoi_cells_from_lines has returned, every input line
\* is contained in the geometry of at least one row of the result.
C1_EveryLineInSomeCell ==
    (pc = "done") =>
       \A n \in 0..(NbLines - 1) :
          \E r \in 1..Len(gdf_lines) : RowContainsLine(gdf_lines[r], n)

\* C2: the geometry of the row of line i is the union of every clipped cell
\* whose site is a sub-segment of line i, multi-part cells included.
C2_RowIsUnionOfAllCells ==
    (pc = "done") =>
       \A r \in 1..Len(gdf_lines) :
          gdf_lines[r].geometry.parts = CellsOfLine(gdf_lines[r].id)

\* C3: the result has at most one row per line, with the line's index as id,
\* in increasing order, and a line has a row exactly when the union of the
\* cells of its sub-segments is not empty.
C3_OneRowPerLineWithCells ==
    (pc = "done") =>
       /\ \A r \in 1..Len(gdf_lines) : gdf_lines[r].id \in 0..(NbLines - 1)
       /\ \A r, q \in 1..Len(gdf_lines) : (r < q) => (gdf_lines[r].id < gdf_lines[q].id)
       /\ \A n \in 0..(NbLines - 1) :
             (\E r \in 1..Len(gdf_lines) : gdf_lines[r].id = n) <=> (CellsOfLine(n) # {})

\* C4: when every input line is simple, split_as_simple_segments maps each
\* line index to exactly one chain, and that chain is the line itself.
C4_SimpleLinesMapToThemselves ==
    (pc = "split_done" /\ \A n \in 1..NbLines : IsSimpleLineString(lines[n])) =>
       \A n \in 0..(NbLines - 1) :
          /\ Len(split_lines_mapping[n]) = 1
          /\ split_lines_mapping[n][1].edges = EdgesOf(lines[n + 1])

\* C5: the step that takes the last segment of the global list while lines
\* are still unvisited ends split_as_simple_segments normally: no exception,
\* the lines not yet visited have no segment, and the segments of the earlier
\* lines are as they were.
C5_ExhaustedReturnsNormally ==
    [][(/\ pc = "split_while"
        /\ BufferContains(lines[i + 1], sub_line)
        /\ j + 1 = Len(all_split_lines)
        /\ i + 1 < NbLines)
       => (/\ pc' = "split_done"
           /\ error' = ""
           /\ end_mapping'
           /\ j' = Len(all_split_lines)
           /\ \A n \in 0..(NbLines - 1) :
                 /\ (n > i) => (split_lines_mapping'[n] = <<>>)
                 /\ (n < i) => (split_lines_mapping'[n] = split_lines_mapping[n]))]_vars

C5_Witness ==
    /\ pc = "split_done"
    /\ end_mapping
    /\ i + 1 < NbLines
    /\ Len(split_lines_mapping[i]) >= 2

\* C6: the sites are in the builder in the order of the segment list, and the
\* counter ct the aggregation holds when it visits a sub-segment of a line is
\* the index of the site that sub-segment was inserted as.
C6_CounterIsSiteIndex ==
    /\ (pc \in {"cells", "filter", "agg", "done"}) =>
          /\ Len(sites) = Len(all_segments)
          /\ \A k \in 1..Len(all_segments) :
                SiteIndex(sites, "segment", all_segments[k]) = k - 1
    /\ (pc = "agg" /\ seg_k < Len(split_lines_mapping[agg_i])) =>
          /\ ct < Len(sites)
          /\ ct = SiteIndex(sites, "segment", SegCoords(split_lines_mapping[agg_i][seg_k + 1]))

C6_Witness ==
    /\ pc = "agg"
    /\ agg_i = 1
    /\ split_lines_mapping[0] = <<>>
    /\ seg_k = 1
    /\ seg_k < Len(split_lines_mapping[agg_i])
    /\ ct = 1

\* C7: when the builder rejects the sites, the call ends with the error: no
\* table is returned and no row was made.
C7_ConstructionErrorPropagates ==
    (error = "VoronoiException") => (pc = "error" /\ gdf = <<>> /\ gdf_lines = <<>>)

C7_Witness ==
    /\ error = "VoronoiException"
    /\ pc = "error"
    /\ Len(sites) < Len(all_segments)

\* The cells that get a row in get_cells_as_gdf.
CellsWithRow == SelectSeq(cells, LAMBDA c : Len(CellCoords(c.edges, <<>>, Eta)) > 2)

\* C8: in the table get_cells_as_gdf returns, the id of every row is the site
\* index of the row's cell.
C8_RowIdIsSiteIndex ==
    (pc = "filter") =>
       /\ Len(gdf) = Len(CellsWithRow)
       /\ \A n \in 1..Len(gdf) : gdf[n].id = CellsWithRow[n].site

\* The coordinates after the two end vertices of e are added to coords, a
\* vertex equal to the coordinate before it left out.
WithEndVertices(coords, e) ==
    LET one == IF coords # <<>> /\ coords[Len(coords)] = e.start THEN coords
               ELSE Append(coords, e.start)
    IN  IF one[Len(one)] = e.end THEN one ELSE Append(one, e.end)

\* C9: a curved edge whose discretization raises the unsolvable-parabola
\* error adds the edge's two end vertices to the cell's coordinates and none
\* of the points yielded before the error; the error is not raised further
\* and the loop goes on with the next edge, and later with the next cell.
C9_UnsolvableFallsBackToEndVertices ==
    [][(nb_edges' = nb_edges + 1 /\ edge'.unsolvable)
       => (/\ cell_coords' = WithEndVertices(cell_coords, edge')
           /\ error' = ""
           /\ pc' = "edges"
           /\ UNCHANGED <<cell, cells_coordinates, nb_cells>>)]_vars

C9_Witness ==
    /\ pc = "edges"
    /\ edge.unsolvable
    /\ edge.curve # <<>>
    /\ nb_edges = 1
    /\ nb_cells = 0
    /\ cell_coords = <<edge.start, edge.end>>

\* The direction of the ray of an unbounded edge has no length.
ZeroDirection(e) == RidgeDirection(e) = <<0, 0>>

\* C10: clip_infinite_edge fails on a ray direction of zero length; it adds
\* no coordinate computed from that direction to the cell.
C10_ZeroDirectionIsAnError ==
    (/\ edge # NoEdge
     /\ (edge.start = NoVertex \/ edge.end = NoVertex)
     /\ ZeroDirection(edge))
    => (pc = "error" /\ ~HasNaN(cell_coords))

\* The sub-segments mapped to lines n, n + 1, ... one list after the other.
RECURSIVE MappedFrom(_, _, _)
MappedFrom(mapping, n, nb_lines) ==
    IF n >= nb_lines THEN <<>>
    ELSE mapping[n] \o MappedFrom(mapping, n + 1, nb_lines)

\* C18: at every step of split_as_simple_segments the lists of lines 0, 1,
\* 2, ... one after the other are the first j segments of the global list, in
\* its order; no line after the current one has a segment yet, and the
\* segment the while test looks at is the first one not assigned, so that
\* none is skipped and one that no remaining line contains keeps all the
\* later ones unassigned.
C18_MappingIsPrefixOfGlobalList ==
    (pc \in {"split_while", "split_done"})
    => /\ j <= Len(all_split_lines)
       /\ MappedFrom(split_lines_mapping, 0, NbLines) = SubSeq(all_split_lines, 1, j)
       /\ \A n \in 0..(NbLines - 1) : n > i => split_lines_mapping[n] = <<>>
       /\ j < Len(all_split_lines) => sub_line = all_split_lines[j + 1]

C18_Witness ==
    /\ pc = "split_done"
    /\ split_lines_mapping[0] # <<>>
    /\ split_lines_mapping[1] # <<>>
    /\ Len(all_split_lines) >= 3

\* The steps a call has left at most: the phases still to come, and within
\* the two loops the lines and segments still to visit.
Phase ==
    CASE pc = "start" -> 7
      [] pc = "split_while" -> 6
      [] pc = "split_done" -> 5
      [] pc = "build" -> 4
      [] pc = "cells" -> 3
      [] pc = "filter" -> 2
      [] pc = "agg" -> 1
      [] OTHER -> 0

StepsLeft ==
    LET nb == Len(all_split_lines)
        most == Cardinality(AllEdgesOf(lines)) + 1
        inner == CASE pc = "split_while" -> (NbLines - i) + (nb - j)
                   [] pc = "agg" -> (NbLines - agg_i) * (most + 1) - seg_k
                   [] OTHER -> 0
    IN  Phase * (NbLines + 1) * (most + 2) + inner

\* C19: the cursor j never passes the end of the global list, so the while
\* loop runs at most once for each of its segments and never reads past the
\* end; the loop over the lines of the aggregation stays within the lines; and
\* every step of a call lessens the number of steps it has left, which is
\* never negative, so every call comes to an end.
C19_SplitAndAggregationTerminate ==
    /\ [](/\ j <= Len(all_split_lines)
          /\ error # "IndexError"
          /\ agg_i <= NbLines
          /\ (pc = "agg" => seg_k <= Len(split_lines_mapping[agg_i]))
          /\ StepsLeft >= 0)
    /\ [][StepsLeft' < StepsLeft]_vars

C19_Witness ==
    /\ pc = "done"
    /\ j = Len(all_split_lines)
    /\ j >= 3
    /\ agg_i = NbLines
    /\ NbLines = 2

\* Python's == on two coordinates.
SameCoordinate(p, q) == FEq(p[1], q[1]) /\ FEq(p[2], q[2])

EmptyClipCells ==
    {n \in 1..Len(cells) :
        /\ EnoughCoordinates(CellCoords(cells[n].edges, <<>>, Eta))
        /\ ClippedParts(cells[n]) = {}}

\* C15: with a cell that has nothing inside the bounding box in the diagram,
\* no exception ends the call; the table of cells holds the cell with an empty
\* geometry; after the filter of line 215 no row is empty, so that no empty
\* geometry is gathered for a line and no row of the result is empty.
C15_EmptyClipIsNoError ==
    LET empty == IF cells = <<>> THEN {} ELSE EmptyClipCells
    IN  (empty # {})
        => /\ error = ""
           /\ (pc = "filter")
                 => \A n \in empty :
                       \E r \in 1..Len(gdf) :
                          /\ gdf[r].id = cells[n].cell_identifier
                          /\ gdf[r].geometry = EmptyCollection
           /\ (pc \in {"agg", "done"})
                 => /\ \A r \in 1..Len(gdf) :
                          /\ gdf[r].geometry.parts # {}
                          /\ \A n \in empty : gdf[r].id # cells[n].cell_identifier
                    /\ \A k \in 1..Len(line_polygons) : line_polygons[k].parts # {}
                    /\ \A r \in 1..Len(gdf_lines) : gdf_lines[r].geometry.parts # {}

C15_Witness ==
    /\ pc = "done"
    /\ EmptyClipCells # {}
    /\ Len(gdf_lines) = NbLines
    /\ NbLines = 2

\* The identifiers of the cells of the diagram in hand.
CellIds == {cells[n].cell_identifier : n \in 1..Len(cells)}

\* C12: a cell is in the mapping get_cells_as_polygons returns exactly when
\* its coordinate list has at least 3 points; at no time does the mapping hold
\* a cell of 0, 1 or 2 coordinates, and passing such a cell by raises nothing.
C12_PolygonIffThreeCoordinates ==
    /\ (pc \in {"polygons_loop", "polygon_made", "polygon_clip", "polygons_done"})
          => \A id \in DOMAIN cells_as_polygons : Len(cells_coordinates[id]) >= 3
    /\ (pc = "polygons_done")
          => /\ DOMAIN cells_as_polygons = {id \in CellIds : Len(cells_coordinates[id]) >= 3}
             /\ error = ""
    /\ (error # "") => (~polygon.is_valid /\ Len(cell_coords) >= 3)

C12_Witness ==
    /\ pc = "polygons_done"
    /\ Len(cells) = 2
    /\ Len(cells_coordinates[0]) = 2
    /\ DOMAIN cells_as_polygons = {1}

\* C13: a geometry enters the mapping only in the clipping step, which comes
\* after the polygon is made and, if it was not valid, repaired: the entry is
\* the intersection with the bounding box of the cell's polygon when that is
\* valid and of the repaired polygon when it is not, each cell enters once and
\* no entry is changed later; repair_polygon is called only on a polygon that
\* is not valid, before the clipping step.
C13_ReconstructRepairClip ==
    [][/\ (cells_as_polygons' # cells_as_polygons)
          => LET id == CellInHand.cell_identifier
                 made == Polygon(cells_coordinates[id])
             IN  /\ pc = "polygon_clip"
                 /\ id \notin DOMAIN cells_as_polygons
                 /\ DOMAIN cells_as_polygons' = DOMAIN cells_as_polygons \cup {id}
                 /\ \A o \in DOMAIN cells_as_polygons : cells_as_polygons'[o] = cells_as_polygons[o]
                 /\ repaired <=> ~made.is_valid
                 /\ polygon = IF made.is_valid THEN made ELSE repair_polygon(made)
                 /\ cells_as_polygons'[id] = Intersection(polygon, bounding_box_coords)
       /\ (repaired' /\ ~repaired)
          => /\ pc = "polygon_made"
             /\ ~polygon.is_valid
             /\ polygon = Polygon(CoordsInHand)
             /\ pc' = "polygon_clip"]_vars

C13_Witness ==
    /\ pc = "polygons_loop"
    /\ nb_cells = 2
    /\ repaired
    /\ DOMAIN cells_as_polygons = {0, 1}
    /\ Polygon(cells_coordinates[0]).is_valid
    /\ cells_as_polygons[1].geom_type = "MultiPolygon"

\* C14: what repair_polygon has returned is the bowtie result when that is
\* valid, and otherwise the zero-distance buffer of the polygon it was given,
\* valid or not; the call raises nothing.
C14_RepairFallsBackToBufferOfInput ==
    (pc = "polygon_clip" /\ repaired)
    => LET made == Polygon(cell_coords)
           bowtie == repair_bowtie_polygon(made)
       IN  /\ error = ""
           /\ bowtie.is_valid => polygon = bowtie
           /\ ~bowtie.is_valid => polygon = BufferZero(made)

C14_Witness ==
    /\ pc = "polygon_clip"
    /\ repaired
    /\ ~repair_bowtie_polygon(Polygon(cell_coords)).is_valid
    /\ ~HasNaN(cell_coords)
    /\ polygon.is_valid

\* C16: get_new_node_unique_name returns a name that is no node of the graph:
\* the name it was given when that is no node, and otherwise the name with
\* "_k" after it for the first k = 2, 3, ... that makes no node.  The graph is
\* never modified.  The counter grows with every turn of the loop and never
\* passes the number of nodes by more than one, so the loop comes to an end.
C16_UniqueNameIsFirstFree ==
    /\ [](/\ unique_ct <= Cardinality(graph) + 1
          /\ (pc = "name_returned")
                => /\ unique_name \notin graph
                   /\ (name \notin graph) => unique_name = name
                   /\ (name \in graph)
                         => \E k \in 2..(Cardinality(graph) + 1) :
                               /\ unique_name = StrName(name.text \o <<"_">> \o Decimal(k))
                               /\ \A q \in 2..(k - 1) :
                                     StrName(name.text \o <<"_">> \o Decimal(q)) \in graph)
    /\ [][/\ graph' = graph
          /\ name' = name
          /\ (pc = "name_while" /\ pc' = "name_while") => unique_ct' = unique_ct + 1]_vars

C16_Witness ==
    /\ pc = "name_returned"
    /\ name = StrName(<<"a">>)
    /\ unique_name = StrName(<<"a", "_", "4">>)
    /\ Cardinality(graph) >= 4

\* How many times farther than the diagonal a ray is projected for comparison.
FarFactor == 2

\* C11: get_cells_as_polygons reconstructs the cells with eta equal to the
\* diagonal length of the bounding rectangle; the point projected at distance
\* eta from a ray origin inside the rectangle is never in the interior of the
\* rectangle; and so the clipped cell does not depend on the projection
\* distance: projecting the rays farther gives the same clipped cell.
C11_ClippedCellIndependentOfEta ==
    /\ pc # "rays_start" => eta = DiagonalLength(bounding_box_coords)
    /\ (pc = "rays_edges" /\ nb_edges > 0 /\ InBox(RidgeOrigin(edge), bounding_box_coords)) =>
          LET p == clip_infinite_edge(<<>>, edge, eta)[IF edge.start = NoVertex THEN 1 ELSE 2]
          IN  ~ /\ bounding_box_coords[1][1] < p[1] /\ p[1] < bounding_box_coords[2][1]
                /\ bounding_box_coords[1][2] < p[2] /\ p[2] < bounding_box_coords[2][2]
    /\ pc = "rays_done" =>
          \A n \in 1..Len(cells) : \A far \in 2..FarFactor :
              LET id == cells[n].cell_identifier
                  farther == CellCoords(cells[n].edges, <<>>, far * eta)
              IN  id \in DOMAIN cells_as_polygons =>
                     cells_as_polygons[id] =
                        IntersectionAtProbes(Polygon(farther), bounding_box_coords)

====
